---- MODULE Spec2Model ----
(***************************************************************************)
(* The plane-sweep intersection scanner of package validate                *)
(* (src/provider/mbtiles/mbtiles.go, lines 244-455): xyorder, the event    *)
(* queue, DoesIntersect, FindIntersects and IsSimple.                       *)
(*                                                                         *)
(* Coordinates are small integers, on which the float64 arithmetic of the  *)
(* code is exact.  Segment and event indices are 0-based as in the Go      *)
(* code; TLA+ sequences are 1-based, so segment i is segments[i + 1].      *)
(***************************************************************************)
EXTENDS Integers, Sequences, FiniteSets

VARIABLES
    segments,   \* the []maths.Line handed to FindIntersects / NewEventQueue
    fn,         \* the callback: "IsSimple" (the closure of IsSimple) or "collect"
    pc,         \* position in FindIntersects: "start", "loop", "test", "done"
    pending,    \* events of the sorted queue that Next has not returned yet
    ix,         \* eventQueue.ix
    isegmap,    \* the open set (keys of the map isegmap)
    ev,         \* the event of the current loop iteration
    segs,       \* open segments the inner loop has still to visit
    calls,      \* pairs <<srcIdx, destIdx>> the callback was invoked with
    ncalls,     \* number of callback invocations
    lastCall,   \* arguments of the latest invocation and the two indices behind them
    found,      \* the variable `found` of IsSimple
    stopped,    \* the callback has returned false
    callsF,     \* callsF[i]: pairs reported by the same scan over Flip(segments, i)
    eq,         \* eventQueue.eq, the sorted array (queue specification)
    ret,        \* what the latest Next / Complement of the queue specification returned
    nexts,      \* the events the calls of Next have returned so far, in order
    ptfns,      \* the closures ptfn handed to the callback, with the lines they captured
    solved,     \* the closures that were called: the calls of maths.Intersect
    \* package log
    level,      \* var level
    IsError,    \* the gate flags
    IsWarn,
    IsInfo,
    IsDebug,
    IsTrace,
    lock,       \* holder of the mutex `lock`, 0 when it is free
    spc,        \* spc[t]: position of goroutine t in SetLogLevel
    sarg,       \* sarg[t]: the parameter lvl of goroutine t
    oldLevel,   \* the level before the SetLogLevel that holds the lock, if one does
    lastArg,    \* the argument of the SetLogLevel call that completed last
    lastLog,    \* the call of Fatal .. Trace made in the latest step, NoLog if none
    \* package mbtiles
    tenv,       \* the stored blob and what the database, gzip, proto and mvt answer
    tpc,        \* position in Provider.MVTLayer
    ttile,      \* the tile getTile returned
    tlayer,     \* the layer MVTLayer returns
    terr        \* the error MVTLayer returns

logVars == <<level, IsError, IsWarn, IsInfo, IsDebug, IsTrace, lock, spc, sarg,
             oldLevel, lastArg, lastLog>>

tileVars == <<tenv, tpc, ttile, tlayer, terr>>

vars == <<segments, fn, pc, pending, ix, isegmap, ev, segs, calls, ncalls,
          lastCall, found, stopped, callsF, eq, ret, nexts, ptfns, solved,
          logVars, tileVars>>

scanVars == <<fn, pc, pending, isegmap, ev, segs, calls, ncalls, lastCall,
              found, stopped, callsF, ptfns, solved>>

----------------------------------------------------------------------------
(* Bounds of the model *)

\* coordinates range over 0..MaxCoord
MaxCoord == 1
\* rings of at most MaxSegs segments are scanned
MaxSegs == 4
\* the queue specification sorts at most MaxQueueSegs segments
MaxQueueSegs == 2

Coords == 0 .. MaxCoord
Pt == Coords \X Coords
Line == Pt \X Pt

----------------------------------------------------------------------------
(* Event types *)

LEFT == 0
RIGHT == 1

NoEvent == [edge |-> -1, edgeType |-> LEFT, ev |-> <<0, 0>>]
NoCall == [src |-> -1, dest |-> -1, closing |-> -1, open |-> -1]

----------------------------------------------------------------------------
(* Point order *)

xyorder(pt1, pt2) ==
    IF pt1[1] > pt2[1] THEN 1
    ELSE IF pt1[1] < pt2[1] THEN -1
    ELSE IF pt1[2] > pt2[2] THEN 1
    ELSE IF pt1[2] < pt2[2] THEN -1
    ELSE 0

\* Less comparing the x coordinates only
Less_XOnly(a, b) == a.ev[1] < b.ev[1]

\* XYOrderedEventPtr.Less on two events
Less(a, b) == xyorder(a.ev, b.ev) = -1

----------------------------------------------------------------------------
(* maths.Line primitives (package maths) *)

\* cross product of (B - A) and (P - A) for the directed line l = <<A, B>>
IsLeft(l, pt) ==
    (l[2][1] - l[1][1]) * (pt[2] - l[1][2]) - (pt[1] - l[1][1]) * (l[2][2] - l[1][2])

\* the two endpoints, lexicographically smaller one first
LeftRightMostAsLine(l) ==
    IF xyorder(l[1], l[2]) <= 0 THEN l ELSE <<l[2], l[1]>>

----------------------------------------------------------------------------
(* NewEventQueue: the event data before sorting *)

\* the event types assigned with the comparison reversed
NewEventData_Reversed(segs_) ==
    [k \in 1 .. 2 * Len(segs_) |->
        LET i == (k - 1) \div 2
            first == (k - 1) % 2 = 0
            isLess == xyorder(segs_[i + 1][1], segs_[i + 1][2]) > 0
        IN [edge |-> i,
            edgeType |-> IF first
                         THEN (IF isLess THEN LEFT ELSE RIGHT)
                         ELSE (IF isLess THEN RIGHT ELSE LEFT),
            ev |-> IF first THEN segs_[i + 1][1] ELSE segs_[i + 1][2]]]

\* edata[k + 1] is the event written at eq.eq[k], k = 2i or 2i + 1
NewEventData(segs_) ==
    [k \in 1 .. 2 * Len(segs_) |->
        LET i == (k - 1) \div 2
            first == (k - 1) % 2 = 0
            isLess == xyorder(segs_[i + 1][1], segs_[i + 1][2]) < 0
        IN [edge |-> i,
            edgeType |-> IF first
                         THEN (IF isLess THEN LEFT ELSE RIGHT)
                         ELSE (IF isLess THEN RIGHT ELSE LEFT),
            ev |-> IF first THEN segs_[i + 1][1] ELSE segs_[i + 1][2]]]

EventSet(segs_) == {NewEventData(segs_)[k] : k \in 1 .. 2 * Len(segs_)}

\* sort.Sort leaves the order of events with equal points open: position ix of
\* the sorted array may hold any unread event that no unread event is Less than
MinEvents(S) == {e \in S : \A o \in S : ~Less(o, e)}

----------------------------------------------------------------------------
(* DoesIntersect *)

\* DoesIntersect without its second straddle test
DoesIntersect_OneSided(s1, s2) ==
    LET as2 == LeftRightMostAsLine(s2)
        as1 == LeftRightMostAsLine(s1)
    IN ~(IsLeft(as1, as2[1]) * IsLeft(as1, as2[2]) > 0)

\* DoesIntersect taking one sign from s1 as given instead of its canonical line
DoesIntersect_RawLine(s1, s2) ==
    LET as2 == LeftRightMostAsLine(s2)
        as1 == LeftRightMostAsLine(s1)
    IN IF IsLeft(s1, as2[1]) * IsLeft(as1, as2[2]) > 0
       THEN FALSE
       ELSE IF IsLeft(as2, as1[1]) * IsLeft(as2, as1[2]) > 0
            THEN FALSE
            ELSE TRUE

DoesIntersect(s1, s2) ==
    LET as2 == LeftRightMostAsLine(s2)
        as1 == LeftRightMostAsLine(s1)
    IN IF IsLeft(as1, as2[1]) * IsLeft(as1, as2[2]) > 0
       THEN FALSE
       ELSE IF IsLeft(as2, as1[1]) * IsLeft(as2, as1[2]) > 0
            THEN FALSE
            ELSE TRUE

----------------------------------------------------------------------------
(* Inputs *)

\* segment i connects vertex i to vertex (i + 1) mod n
Ring(vs) == [i \in 1 .. Len(vs) |-> <<vs[i], vs[(i % Len(vs)) + 1]>>]

\* segment i (0-based) with its two endpoints swapped
Flip(segs_, i) ==
    [k \in 1 .. Len(segs_) |->
        IF k = i + 1 THEN <<segs_[k][2], segs_[k][1]>> ELSE segs_[k]]

SmallArrays == UNION {[1 .. n -> Line] : n \in 0 .. 2}
Rings == UNION {{Ring(vs) : vs \in [1 .. n -> Pt]} : n \in 3 .. MaxSegs}
Inputs == SmallArrays \cup Rings

----------------------------------------------------------------------------
(* Package log (src/internal/log/log.go): levels and the state init() leaves *)

TRACE == -2
DEBUG == -1
INFO == 0
WARN == 1
ERROR == 2
FATAL == 3

\* goroutines that call SetLogLevel
MaxSetters == 2
Setters == 1 .. MaxSetters

NoLog == [sev |-> FATAL, passed |-> TRUE, old |-> INFO, new |-> INFO]

\* lines 19-22: init() has run SetLogLevel(INFO)
LogAtRest ==
    /\ level = INFO
    /\ IsError = TRUE
    /\ IsWarn = TRUE
    /\ IsInfo = TRUE
    /\ IsDebug = FALSE
    /\ IsTrace = FALSE
    /\ lock = 0
    /\ spc = [t \in Setters |-> "idle"]
    /\ sarg = [t \in Setters |-> INFO]
    /\ oldLevel = INFO
    /\ lastArg = INFO
    /\ lastLog = NoLog

----------------------------------------------------------------------------
(* Package mbtiles: no call of MVTLayer under way *)

NoEnv == [db |-> "row", data |-> <<>>, reader |-> "ok", read |-> "ok",
          proto |-> "ok", conv |-> "ok", named |-> FALSE]

TileAtRest ==
    /\ tenv = NoEnv
    /\ tpc = "idle"
    /\ ttile = "none"
    /\ tlayer = "none"
    /\ terr = "nil"

----------------------------------------------------------------------------
(* FindIntersects and IsSimple *)

Init ==
    /\ segments \in Inputs
    /\ fn \in {"IsSimple", "collect"}
    /\ pc = "start"
    /\ pending = {}
    /\ ix = 0
    /\ isegmap = {}
    /\ ev = NoEvent
    /\ segs = {}
    /\ calls = {}
    /\ ncalls = 0
    /\ lastCall = NoCall
    /\ found = TRUE
    /\ stopped = FALSE
    /\ callsF = [i \in 0 .. Len(segments) - 1 |-> {}]
    /\ eq = <<>>
    /\ ret = NoEvent
    /\ nexts = <<>>
    /\ ptfns = {}
    /\ solved = {}
    /\ LogAtRest
    /\ TileAtRest

\* the early return taken for fewer than 2 segments only
TooFew_Two(ns) == ns < 2

\* lines 390-393: the scan is skipped for fewer than 3 segments
TooFew(ns) == ns < 3

\* lines 389-393: build the queue, return at once for fewer than 3 segments
Enter ==
    /\ pc = "start"
    /\ pending' = EventSet(segments)
    /\ pc' = IF TooFew(Len(segments)) THEN "done" ELSE "loop"
    /\ UNCHANGED <<segments, fn, ix, isegmap, ev, segs, calls, ncalls, lastCall,
                   found, stopped, callsF, eq, ret>>
    /\ UNCHANGED <<nexts, ptfns, solved, logVars, tileVars>>

\* lines 397-405: Next returns an event of an edge not yet seen
EventOpen ==
    /\ pc = "loop"
    /\ \E e \in MinEvents(pending) :
        /\ e.edge \notin isegmap
        /\ pending' = pending \ {e}
        /\ ix' = ix + 1
        /\ ev' = e
        /\ isegmap' = isegmap \cup {e.edge}
    /\ UNCHANGED <<segments, fn, pc, segs, calls, ncalls, lastCall, found,
                   stopped, callsF, eq, ret>>
    /\ UNCHANGED <<nexts, ptfns, solved, logVars, tileVars>>

\* the closing edge left in the map
Deleted_Keep(open, edge) == open

\* line 410: delete(isegmap, ev.edge)
Deleted(open, edge) == open \ {edge}

\* lines 397-418: Next returns the second event of an open edge
EventClose ==
    /\ pc = "loop"
    /\ \E e \in MinEvents(pending) :
        /\ e.edge \in isegmap
        /\ pending' = pending \ {e}
        /\ ix' = ix + 1
        /\ ev' = e
        /\ isegmap' = Deleted(isegmap, e.edge)
        /\ segs' = Deleted(isegmap, e.edge)
        /\ pc' = IF Deleted(isegmap, e.edge) = {} THEN "loop" ELSE "test"
    /\ UNCHANGED <<segments, fn, calls, ncalls, lastCall, found, stopped,
                   callsF, eq, ret>>
    /\ UNCHANGED <<nexts, ptfns, solved, logVars, tileVars>>

\* the adjacency test without the case that s follows the closing edge
Adjacent_OneWay(edge, s, ns) == edge = s \/ (s + 1) % ns = edge

\* line 423
Adjacent(edge, s, ns) == edge = s \/ (s + 1) % ns = edge \/ (edge + 1) % ns = s

\* lines 420-429: does the inner loop reach the callback for open segment s
Hit(segs_, edge, s) ==
    /\ ~Adjacent(edge, s, Len(segs_))
    /\ DoesIntersect(segs_[edge + 1], segs_[s + 1])

\* the pair passed on without the swap
Src_NoSwap(edge, s) == edge

\* lines 435-438
Src(edge, s) == IF edge > s THEN s ELSE edge
Dest(edge, s) == IF edge > s THEN edge ELSE s

AfterSeg(s) == IF segs \ {s} = {} THEN "loop" ELSE "test"

\* the answer of the callback ignored
AfterCall_Continue(r, s) == AfterSeg(s)

\* lines 440-442: the scan returns when the callback answers false
AfterCall(r, s) == IF r THEN AfterSeg(s) ELSE "done"

\* the callback of IsSimple answering true
IsSimpleAnswer_True == TRUE

\* line 452: the callback of IsSimple answers false
IsSimpleAnswer == FALSE

\* a closure that takes both lines from the closing edge
Closure_SameLine(segs_, edge, s) ==
    [src |-> Src(edge, s), dest |-> Dest(edge, s),
     edge |-> segs_[edge + 1], sedge |-> segs_[edge + 1]]

\* lines 414, 426 and 431-434: ptfn closes over edge and sedge, the copies of
\* segments[ev.edge] and segments[s] made in this iteration
Closure(segs_, edge, s) ==
    [src |-> Src(edge, s), dest |-> Dest(edge, s),
     edge |-> segs_[edge + 1], sedge |-> segs_[s + 1]]

HitF(s) ==
    [i \in DOMAIN callsF |->
        IF Hit(Flip(segments, i), ev.edge, s)
        THEN callsF[i] \cup {<<Src(ev.edge, s), Dest(ev.edge, s)>>}
        ELSE callsF[i]]

\* lines 420-429: the pair is skipped
TestSkip ==
    /\ pc = "test"
    /\ \E s \in segs :
        /\ ~Hit(segments, ev.edge, s)
        /\ segs' = segs \ {s}
        /\ pc' = AfterSeg(s)
        /\ callsF' = HitF(s)
    /\ UNCHANGED <<segments, fn, pending, ix, isegmap, ev, calls, ncalls,
                   lastCall, found, stopped, eq, ret>>
    /\ UNCHANGED <<nexts, ptfns, solved, logVars, tileVars>>

\* lines 431-442 with the callback of IsSimple (lines 450-453)
TestCallIsSimple ==
    /\ pc = "test"
    /\ fn = "IsSimple"
    /\ \E s \in segs :
        /\ Hit(segments, ev.edge, s)
        /\ segs' = segs \ {s}
        /\ calls' = calls \cup {<<Src(ev.edge, s), Dest(ev.edge, s)>>}
        /\ ncalls' = ncalls + 1
        /\ lastCall' = [src |-> Src(ev.edge, s), dest |-> Dest(ev.edge, s),
                        closing |-> ev.edge, open |-> s]
        /\ callsF' = HitF(s)
        /\ ptfns' = ptfns \cup {Closure(segments, ev.edge, s)}
        /\ pc' = AfterCall(IsSimpleAnswer, s)
    /\ found' = FALSE
    /\ stopped' = ~IsSimpleAnswer
    /\ UNCHANGED <<segments, fn, pending, ix, isegmap, ev, eq, ret>>
    /\ UNCHANGED <<nexts, solved, logVars, tileVars>>

\* lines 431-442 with a callback that records the pair and answers r
TestCallCollect ==
    /\ pc = "test"
    /\ fn = "collect"
    /\ \E s \in segs, r \in BOOLEAN :
        /\ Hit(segments, ev.edge, s)
        /\ segs' = segs \ {s}
        /\ calls' = calls \cup {<<Src(ev.edge, s), Dest(ev.edge, s)>>}
        /\ ncalls' = ncalls + 1
        /\ lastCall' = [src |-> Src(ev.edge, s), dest |-> Dest(ev.edge, s),
                        closing |-> ev.edge, open |-> s]
        /\ callsF' = HitF(s)
        /\ ptfns' = ptfns \cup {Closure(segments, ev.edge, s)}
        /\ stopped' = ~r
        /\ pc' = AfterCall(r, s)
    /\ UNCHANGED <<segments, fn, pending, ix, isegmap, ev, found, eq, ret>>
    /\ UNCHANGED <<nexts, solved, logVars, tileVars>>

\* the bound of Next off by one
Exhausted_OffByOne(i, n) == i > n

\* line 320: no event is left in a queue of n events
Exhausted(i, n) == i >= n

\* lines 319-322 and 445: Next returns nil, the scan returns
LoopExit ==
    /\ pc = "loop"
    /\ Exhausted(ix, 2 * Len(segments))
    /\ pc' = "done"
    /\ UNCHANGED <<segments, fn, pending, ix, isegmap, ev, segs, calls, ncalls,
                   lastCall, found, stopped, callsF, eq, ret>>
    /\ UNCHANGED <<nexts, ptfns, solved, logVars, tileVars>>

\* lines 431-434: the caller calls a ptfn it was handed, during the callback
\* or at any later time; ptfn calls maths.Intersect(edge, sedge)
CallPtfn ==
    /\ fn = "collect"
    /\ \E f \in ptfns \ solved : solved' = solved \cup {f}
    /\ UNCHANGED <<segments, fn, pc, pending, ix, isegmap, ev, segs, calls,
                   ncalls, lastCall, found, stopped, callsF, eq, ret, nexts,
                   ptfns, logVars, tileVars>>

\* the steps of FindIntersects itself
ScanStep ==
    \/ Enter
    \/ EventOpen
    \/ EventClose
    \/ TestSkip
    \/ TestCallIsSimple
    \/ TestCallCollect
    \/ LoopExit

Next ==
    \/ Enter
    \/ EventOpen
    \/ EventClose
    \/ TestSkip
    \/ TestCallIsSimple
    \/ TestCallCollect
    \/ LoopExit
    \/ CallPtfn

Spec == Init /\ [][Next]_vars

\* FindIntersects is straight-line sequential code over a callback that
\* returns: whenever one of its steps is possible, it is eventually taken.
\* Nothing obliges the caller to call a ptfn.
SpecLive == Init /\ [][Next]_vars /\ WF_vars(ScanStep)

----------------------------------------------------------------------------
(* The event queue on its own: NewEventQueue, Next, Complement *)

\* every array sort.Sort may leave in eq.eq: the events in an order in which
\* no event is Less than an earlier one
RECURSIVE SortedOrders(_)
SortedOrders(S) ==
    IF S = {} THEN {<<>>}
    ELSE UNION {{<<e>> \o t : t \in SortedOrders(S \ {e})} : e \in MinEvents(S)}

\* lines 328-334, on the sorted array q (eq.eq[k] is q[k + 1])
Complement(q, e) ==
    LET idx == e.edge * 2
    IN IF e.edgeType = LEFT THEN q[idx + 1 + 1] ELSE q[idx + 1]

QueueInputs == UNION {[1 .. n -> Line] : n \in 0 .. MaxQueueSegs}

\* the state NewEventQueue(segments) returns
QInit ==
    /\ segments \in QueueInputs
    /\ eq \in SortedOrders(EventSet(segments))
    /\ ix = 0
    /\ ret = NoEvent
    /\ fn = "collect"
    /\ pc = "queue"
    /\ pending = {}
    /\ isegmap = {}
    /\ ev = NoEvent
    /\ segs = {}
    /\ calls = {}
    /\ ncalls = 0
    /\ lastCall = NoCall
    /\ found = TRUE
    /\ stopped = FALSE
    /\ callsF = [i \in 0 .. Len(segments) - 1 |-> {}]
    /\ nexts = <<>>
    /\ ptfns = {}
    /\ solved = {}
    /\ LogAtRest
    /\ TileAtRest

\* lines 319-326, an unread event is left
QNext ==
    /\ ~Exhausted(ix, Len(eq))
    /\ ret' = eq[ix + 1]
    /\ ix' = ix + 1
    /\ nexts' = Append(nexts, eq[ix + 1])
    /\ UNCHANGED <<segments, eq, scanVars, logVars, tileVars>>

\* lines 319-322, the queue is exhausted: nil
QNextNil ==
    /\ Exhausted(ix, Len(eq))
    /\ ret' = NoEvent
    /\ UNCHANGED <<segments, eq, ix, nexts, scanVars, logVars, tileVars>>

\* lines 328-334, called with an event of the queue
QComplement ==
    /\ \E k \in 1 .. Len(eq) : ret' = Complement(eq, eq[k])
    /\ UNCHANGED <<segments, eq, ix, nexts, scanVars, logVars, tileVars>>

QNextStep ==
    \/ QNext
    \/ QNextNil
    \/ QComplement

SpecQueue == QInit /\ [][QNextStep]_vars

----------------------------------------------------------------------------
(* Package log: SetLogLevel and the gated calls Fatal .. Trace.  Each         *)
(* goroutine of Setters runs SetLogLevel one statement at a time; spc[t] is   *)
(* the line it executes next.  Fatal .. Trace read their flag without the     *)
(* lock, between any two statements of a running SetLogLevel.                 *)

\* what FindIntersects and the queue hold while only the log package runs
ScanAtRest ==
    /\ segments = <<>>
    /\ fn = "collect"
    /\ pc = "start"
    /\ pending = {}
    /\ ix = 0
    /\ isegmap = {}
    /\ ev = NoEvent
    /\ segs = {}
    /\ calls = {}
    /\ ncalls = 0
    /\ lastCall = NoCall
    /\ found = TRUE
    /\ stopped = FALSE
    /\ callsF = <<>>
    /\ eq = <<>>
    /\ ret = NoEvent
    /\ nexts = <<>>
    /\ ptfns = {}
    /\ solved = {}

scanState == <<segments, ix, eq, ret, nexts, scanVars>>

\* the values a caller can pass as lvl: the six levels and one value beyond
\* each end of the range
LevelArgs == TRACE - 1 .. FATAL + 1

\* lines 56-58: an unrecognised level is replaced by INFO
Normalize(lvl) == IF lvl \in TRACE .. FATAL THEN lvl ELSE INFO

\* the switch with strict comparisons
FirstCase_Strict(l) ==
    IF l = TRACE THEN "l62"
    ELSE IF l < DEBUG THEN "l65"
    ELSE IF l < INFO THEN "l68"
    ELSE IF l < WARN THEN "l71"
    ELSE IF l < ERROR THEN "l74"
    ELSE "l76"

\* lines 60-73: the first case of the switch that holds, lock.Unlock() if none
FirstCase(l) ==
    IF l = TRACE THEN "l62"
    ELSE IF l <= DEBUG THEN "l65"
    ELSE IF l <= INFO THEN "l68"
    ELSE IF l <= WARN THEN "l71"
    ELSE IF l <= ERROR THEN "l74"
    ELSE "l76"

LInit == ScanAtRest /\ LogAtRest /\ TileAtRest

\* line 48: goroutine t calls SetLogLevel(lvl)
SetCall(t) ==
    /\ spc[t] = "idle"
    /\ \E lvl \in LevelArgs : sarg' = [sarg EXCEPT ![t] = lvl]
    /\ spc' = [spc EXCEPT ![t] = "l49"]
    /\ lastLog' = NoLog
    /\ UNCHANGED <<level, IsError, IsWarn, IsInfo, IsDebug, IsTrace, lock,
                   oldLevel, lastArg, scanState, tileVars>>

\* line 49: lock.Lock() returns once the mutex is free
SetLock(t) ==
    /\ spc[t] = "l49"
    /\ lock = 0
    /\ lock' = t
    /\ oldLevel' = level
    /\ spc' = [spc EXCEPT ![t] = "l50"]
    /\ lastLog' = NoLog
    /\ UNCHANGED <<level, IsError, IsWarn, IsInfo, IsDebug, IsTrace, sarg,
                   lastArg, scanState, tileVars>>

\* lines 50-55: the six assignments of false
SetClear(t) ==
    /\ spc[t] \in {"l50", "l51", "l52", "l53", "l54", "l55"}
    /\ IsTrace' = IF spc[t] \in {"l50", "l55"} THEN FALSE ELSE IsTrace
    /\ IsDebug' = IF spc[t] = "l51" THEN FALSE ELSE IsDebug
    /\ IsInfo' = IF spc[t] = "l52" THEN FALSE ELSE IsInfo
    /\ IsWarn' = IF spc[t] = "l53" THEN FALSE ELSE IsWarn
    /\ IsError' = IF spc[t] = "l54" THEN FALSE ELSE IsError
    /\ spc' = [spc EXCEPT ![t] =
                CASE spc[t] = "l50" -> "l51"
                  [] spc[t] = "l51" -> "l52"
                  [] spc[t] = "l52" -> "l53"
                  [] spc[t] = "l53" -> "l54"
                  [] spc[t] = "l54" -> "l55"
                  [] spc[t] = "l55" -> "l56"]
    /\ lastLog' = NoLog
    /\ UNCHANGED <<level, lock, sarg, oldLevel, lastArg, scanState,
                   tileVars>>

\* lines 56-61: lvl is normalised and stored in level, the switch picks its case
SetLevel(t) ==
    /\ spc[t] = "l56"
    /\ level' = Normalize(sarg[t])
    /\ spc' = [spc EXCEPT ![t] = FirstCase(Normalize(sarg[t]))]
    /\ lastLog' = NoLog
    /\ UNCHANGED <<IsError, IsWarn, IsInfo, IsDebug, IsTrace, lock, sarg,
                   oldLevel, lastArg, scanState, tileVars>>

\* lines 62-74: the case bodies, each falling through to the next
SetFlag(t) ==
    /\ spc[t] \in {"l62", "l65", "l68", "l71", "l74"}
    /\ IsTrace' = IF spc[t] = "l62" THEN TRUE ELSE IsTrace
    /\ IsDebug' = IF spc[t] = "l65" THEN TRUE ELSE IsDebug
    /\ IsInfo' = IF spc[t] = "l68" THEN TRUE ELSE IsInfo
    /\ IsWarn' = IF spc[t] = "l71" THEN TRUE ELSE IsWarn
    /\ IsError' = IF spc[t] = "l74" THEN TRUE ELSE IsError
    /\ spc' = [spc EXCEPT ![t] =
                CASE spc[t] = "l62" -> "l65"
                  [] spc[t] = "l65" -> "l68"
                  [] spc[t] = "l68" -> "l71"
                  [] spc[t] = "l71" -> "l74"
                  [] spc[t] = "l74" -> "l76"]
    /\ lastLog' = NoLog
    /\ UNCHANGED <<level, lock, sarg, oldLevel, lastArg, scanState,
                   tileVars>>

\* line 76: lock.Unlock(); the call of goroutine t is complete
SetUnlock(t) ==
    /\ spc[t] = "l76"
    /\ lock' = 0
    /\ lastArg' = sarg[t]
    /\ oldLevel' = level
    /\ sarg' = [sarg EXCEPT ![t] = INFO]
    /\ spc' = [spc EXCEPT ![t] = "idle"]
    /\ lastLog' = NoLog
    /\ UNCHANGED <<level, IsError, IsWarn, IsInfo, IsDebug, IsTrace, scanState,
                   tileVars>>

\* lines 80-112: the flag that Fatal, Error, Warn, Info, Debug or Trace tests
\* before it forwards to the logger; Fatal tests none
Gate(sev) ==
    CASE sev = FATAL -> TRUE
      [] sev = ERROR -> IsError
      [] sev = WARN -> IsWarn
      [] sev = INFO -> IsInfo
      [] sev = DEBUG -> IsDebug
      [] sev = TRACE -> IsTrace

\* lines 80-112: a call of Fatal .. Trace, at any moment.  old and new are the
\* level before and after the SetLogLevel that holds the lock, if one does.
Log ==
    /\ \E sev \in TRACE .. FATAL :
        lastLog' = [sev |-> sev,
                    passed |-> Gate(sev),
                    old |-> IF lock = 0 THEN level ELSE oldLevel,
                    new |-> IF lock = 0 THEN level ELSE Normalize(sarg[lock])]
    /\ UNCHANGED <<level, IsError, IsWarn, IsInfo, IsDebug, IsTrace, lock, spc,
                   sarg, oldLevel, lastArg, scanState, tileVars>>

LNext ==
    \/ \E t \in Setters : SetCall(t)
    \/ \E t \in Setters : SetLock(t)
    \/ \E t \in Setters : SetClear(t)
    \/ \E t \in Setters : SetLevel(t)
    \/ \E t \in Setters : SetFlag(t)
    \/ \E t \in Setters : SetUnlock(t)
    \/ Log

SpecLog == LInit /\ [][LNext]_vars

----------------------------------------------------------------------------
(* Package mbtiles: getTile and Provider.MVTLayer.  The database, the gzip    *)
(* reader, proto.Unmarshal and mvt.TileFromVTile are the environment: tenv    *)
(* fixes, for one call, the blob stored under the key and which of them fail. *)
(* Errors are named after the call that raises them.                          *)

\* length of the stored blobs
MaxBlob == 2

\* the two magic bytes 0x1f and 0x8b, and one other byte
Bytes == {31, 139, 0}
Blobs == UNION {[1 .. n -> Bytes] : n \in 0 .. MaxBlob}

\* lines 125-128
isGzip(b) == Len(b) >= 2 /\ b[1] = 31 /\ b[2] = 139

\* db: the query finds a row, finds none (sql.ErrNoRows) or fails otherwise.
\* Without a row t.data stays empty, which unmarshals to a tile without layers.
TileEnvs ==
    {e \in [db : {"row", "norows", "dberr"}, data : Blobs,
            reader : {"ok", "err"}, read : {"ok", "err"},
            proto : {"ok", "err"}, conv : {"ok", "err"}, named : BOOLEAN] :
        e.db # "row" => (e.data = <<>> /\ e.proto = "ok" /\ ~e.named)}

\* a missing row reported as an error
GetTileResult_NoRowsIsError(db) ==
    CASE db = "row" -> [tile |-> "full", err |-> "nil"]
      [] db = "norows" -> [tile |-> "nil", err |-> "sql.ErrNoRows"]
      [] db = "dberr" -> [tile |-> "nil", err |-> "db.QueryRow"]

\* lines 229-242: getTile
GetTileResult(db) ==
    CASE db = "row" -> [tile |-> "full", err |-> "nil"]
      [] db = "norows" -> [tile |-> "empty", err |-> "nil"]
      [] db = "dberr" -> [tile |-> "nil", err |-> "db.QueryRow"]

TInit ==
    /\ ScanAtRest
    /\ LogAtRest
    /\ tenv \in TileEnvs
    /\ tpc = "call"
    /\ ttile = "none"
    /\ tlayer = "none"
    /\ terr = "nil"

\* lines 88-92: layer = new(mvt.Layer); getTile; its error is returned with
\* the new layer
TGetTile ==
    /\ tpc = "call"
    /\ ttile' = GetTileResult(tenv.db).tile
    /\ terr' = GetTileResult(tenv.db).err
    /\ IF GetTileResult(tenv.db).err # "nil"
       THEN tpc' = "done" /\ tlayer' = "empty"
       ELSE tpc' = "gzip" /\ tlayer' = tlayer
    /\ UNCHANGED <<tenv, scanState, logVars>>

\* line 94: the blob does not start with the gzip magic number
TNotGzip ==
    /\ tpc = "gzip"
    /\ ~isGzip(tenv.data)
    /\ tpc' = "proto"
    /\ UNCHANGED <<tenv, ttile, tlayer, terr, scanState, logVars>>

\* lines 94-104: gzip.NewReader and ioutil.ReadAll; either error is returned
\* with a nil layer
TGunzip ==
    /\ tpc = "gzip"
    /\ isGzip(tenv.data)
    /\ IF tenv.reader = "err"
       THEN tpc' = "done" /\ tlayer' = "nil" /\ terr' = "gzip.NewReader"
       ELSE IF tenv.read = "err"
       THEN tpc' = "done" /\ tlayer' = "nil" /\ terr' = "ioutil.ReadAll"
       ELSE tpc' = "proto" /\ tlayer' = tlayer /\ terr' = terr
    /\ UNCHANGED <<tenv, ttile, scanState, logVars>>

\* lines 106-109: proto.Unmarshal
TUnmarshal ==
    /\ tpc = "proto"
    /\ IF tenv.proto = "err"
       THEN tpc' = "done" /\ tlayer' = "nil" /\ terr' = "proto.Unmarshal"
       ELSE tpc' = "conv" /\ tlayer' = tlayer /\ terr' = terr
    /\ UNCHANGED <<tenv, ttile, scanState, logVars>>

\* lines 111-114: mvt.TileFromVTile
TConvert ==
    /\ tpc = "conv"
    /\ IF tenv.conv = "err"
       THEN tpc' = "done" /\ tlayer' = "nil" /\ terr' = "mvt.TileFromVTile"
       ELSE tpc' = "select" /\ tlayer' = tlayer /\ terr' = terr
    /\ UNCHANGED <<tenv, ttile, scanState, logVars>>

\* lines 116-122: the layer named layerName is copied into the new layer,
\* which is returned with a nil error
TSelect ==
    /\ tpc = "select"
    /\ tlayer' = IF tenv.named THEN "named" ELSE "empty"
    /\ terr' = "nil"
    /\ tpc' = "done"
    /\ UNCHANGED <<tenv, ttile, scanState, logVars>>

TNext ==
    \/ TGetTile
    \/ TNotGzip
    \/ TGunzip
    \/ TUnmarshal
    \/ TConvert
    \/ TSelect

SpecTile == TInit /\ [][TNext]_vars

----------------------------------------------------------------------------
(* Plane geometry the claims are stated against *)

Cross(a, b) == a[1] * b[2] - a[2] * b[1]
Minus(a, b) == <<a[1] - b[1], a[2] - b[2]>>
Between(a, b, c) == (a <= b /\ b <= c) \/ (c <= b /\ b <= a)

\* the point p lies on the segment s
OnSegment(p, s) ==
    /\ Cross(Minus(s[2], s[1]), Minus(p, s[1])) = 0
    /\ Between(s[1][1], p[1], s[2][1])
    /\ Between(s[1][2], p[2], s[2][2])

\* num / den lies in [0, 1], den # 0
InUnit(num, den) ==
    IF den > 0 THEN 0 <= num /\ num <= den ELSE den <= num /\ num <= 0

\* the segments a and b have at least one point in common: for lines that are
\* not parallel the parameters of the crossing a[1] + t (a[2] - a[1]) =
\* b[1] + u (b[2] - b[1]) both lie in [0, 1]; otherwise an endpoint of one lies
\* on the other
SharePoint(a, b) ==
    LET d1 == Minus(a[2], a[1])
        d2 == Minus(b[2], b[1])
        w == Minus(b[1], a[1])
        den == Cross(d1, d2)
    IN IF den # 0
       THEN InUnit(Cross(w, d2), den) /\ InUnit(Cross(w, d1), den)
       ELSE \/ OnSegment(a[1], b) \/ OnSegment(a[2], b)
            \/ OnSegment(b[1], a) \/ OnSegment(b[2], a)

NumSegs == Len(segments)

\* i and j are distinct and neither is the ring successor of the other
RingAdjacent(i, j, n) == i = j \/ (i + 1) % n = j \/ (j + 1) % n = i

\* the pairs a complete enumeration owes: non-adjacent, with a common point
SharingPairs(segs_) ==
    {p \in (0 .. Len(segs_) - 1) \X (0 .. Len(segs_) - 1) :
        /\ p[1] < p[2]
        /\ ~RingAdjacent(p[1], p[2], Len(segs_))
        /\ SharePoint(segs_[p[1] + 1], segs_[p[2] + 1])}

\* no segment is a single point
NoZeroLength(segs_) == \A k \in 1 .. Len(segs_) : segs_[k][1] # segs_[k][2]

FullScanDone == pc = "done" /\ fn = "collect" /\ ~stopped
IsSimpleDone == pc = "done" /\ fn = "IsSimple"

Bowtie == Ring(<< <<0, 0>>, <<1, 1>>, <<1, 0>>, <<0, 1>> >>)
UnitSquare == Ring(<< <<0, 0>>, <<1, 0>>, <<1, 1>>, <<0, 1>> >>)

----------------------------------------------------------------------------
(* Claims *)

\* C1: for a ring of n >= 3 segments a full scan (callback always true) reports
\* every non-adjacent pair of segments with a common point, whatever the order
\* of events with equal points; the bowtie yields exactly the pair (0, 2) and
\* IsSimple returns false for it.  (Stated for rings without zero-length
\* segments, a part of the claim's rings.)
C1_FullScanReportsAllSharingPairs ==
    /\ (FullScanDone /\ NumSegs >= 3 /\ NoZeroLength(segments))
           => SharingPairs(segments) \subseteq calls
    /\ (FullScanDone /\ segments = Bowtie) => calls = {<<0, 2>>}
    /\ (IsSimpleDone /\ segments = Bowtie) => found = FALSE

\* the bowtie part of C1 alone
C1_Bowtie ==
    /\ (FullScanDone /\ segments = Bowtie) => (calls = {<<0, 2>>} /\ ncalls = 1)
    /\ (IsSimpleDone /\ segments = Bowtie) => found = FALSE

C1_BowtieWitness == FullScanDone /\ segments = Bowtie /\ ix = 8

\* C2: every pair FindIntersects reports consists of two segments that share a
\* point; for a ring in which no two non-adjacent segments share a point the
\* callback is never invoked and IsSimple returns true.
C2_ReportedPairsSharePoint ==
    /\ \A c \in calls : SharePoint(segments[c[1] + 1], segments[c[2] + 1])
    /\ SharingPairs(segments) = {} => (calls = {} /\ ncalls = 0 /\ found = TRUE)

C2_Witness ==
    /\ IsSimpleDone
    /\ segments = UnitSquare
    /\ SharingPairs(segments) = {}
    /\ ix = 8
    /\ found = TRUE

\* the array an insertion sort leaves: events with equal points keep the order
\* of eq.edata
StableOrder(ed) ==
    LET Rank(k) == 1 + Cardinality({j \in 1 .. Len(ed) :
                        \/ Less(ed[j], ed[k])
                        \/ (xyorder(ed[j].ev, ed[k].ev) = 0 /\ j < k)})
    IN [p \in 1 .. Len(ed) |-> ed[CHOOSE k \in 1 .. Len(ed) : Rank(k) = p]]

\* the pairs a full scan (lines 397-444, callback always true) reports when
\* Next returns order[k], order[k + 1], ... and the open set is open
RECURSIVE ScanFrom(_, _, _, _)
ScanFrom(segs_, order, k, open) ==
    IF k > Len(order) THEN {}
    ELSE LET e == order[k].edge
         IN IF e \notin open
            THEN ScanFrom(segs_, order, k + 1, open \cup {e})
            ELSE {<<Src(e, s), Dest(e, s)>> :
                      s \in {o \in open \ {e} : Hit(segs_, e, o)}}
                 \cup ScanFrom(segs_, order, k + 1, open \ {e})

FullScan(segs_, order) ==
    IF TooFew(Len(segs_)) THEN {} ELSE ScanFrom(segs_, order, 1, {})

\* C3: for a fixed segment array the set of pairs a full scan reports does not
\* depend on the order the sort gives to events with equal points: every such
\* order yields the pairs that the order of an insertion sort yields.  (Stated
\* for rings without zero-length segments, a part of the claim's arrays.)
C3_PairsIndependentOfTieOrder ==
    (FullScanDone /\ NoZeroLength(segments))
        => calls = FullScan(segments, StableOrder(NewEventData(segments)))

\* C4: the callback is never invoked with a pair {i, i} nor with a pair
\* {i, (i + 1) mod n}, even when the two edges are collinear or overlap.
C4_NoAdjacentPairReported ==
    /\ \A c \in calls : ~RingAdjacent(c[1], c[2], NumSegs)
    /\ lastCall # NoCall => ~RingAdjacent(lastCall.src, lastCall.dest, NumSegs)

\* the two segments lie on one line and have more than one point in common
Overlap(a, b) ==
    /\ a[1] # a[2]
    /\ b[1] # b[2]
    /\ \/ (OnSegment(a[1], b) /\ OnSegment(a[2], b))
       \/ (OnSegment(b[1], a) /\ OnSegment(b[2], a))

\* the inner loop of a closing event has passed over an open ring neighbour
\* that overlaps the closing edge, and reported a pair in the same scan
C4_Witness ==
    /\ pc \in {"test", "loop", "done"}
    /\ ev.edge \notin isegmap
    /\ ev # NoEvent
    /\ calls # {}
    /\ \E s \in isegmap \ segs :
        /\ s # ev.edge
        /\ RingAdjacent(ev.edge, s, NumSegs)
        /\ Overlap(segments[ev.edge + 1], segments[s + 1])
        /\ DoesIntersect(segments[ev.edge + 1], segments[s + 1])

\* C5: once a callback invocation has returned false FindIntersects has
\* returned: no further callback invocation, no further open segment tested,
\* no further event taken from the queue.
C5_EarlyAbort ==
    [][stopped => (/\ pc = "done"
                   /\ ncalls' = ncalls
                   /\ calls' = calls
                   /\ segs' = segs
                   /\ ix' = ix
                   /\ pending' = pending)]_vars

\* the second invocation answered false with open segments and events left
C5_Witness ==
    /\ stopped
    /\ pc = "done"
    /\ fn = "collect"
    /\ ncalls = 2
    /\ segs # {}
    /\ pending # {}

\* two segments that cross in the interior of both
Crossing == << << <<0, 0>>, <<1, 1>> >>, << <<1, 0>>, <<0, 1>> >> >>

\* C6: for fewer than 3 segments, whatever the coordinates, the scan is skipped
\* entirely: no event is read, the callback is never invoked and IsSimple
\* returns true.
C6_FewerThanThreeSegments ==
    NumSegs < 3 =>
        /\ calls = {}
        /\ ncalls = 0
        /\ found = TRUE
        /\ ix = 0
        /\ isegmap = {}
        /\ pc \in {"start", "done"}

C6_Witness ==
    /\ IsSimpleDone
    /\ segments = Crossing
    /\ SharePoint(segments[1], segments[2])
    /\ found = TRUE

\* C7: IsSimple returns true exactly when the scan it runs reaches the end of
\* the queue without a pair to report (the full scan, which reports no pair),
\* and false otherwise, at the first pair; its callback is invoked at most once.
C7_IsSimpleIffNoPair ==
    fn = "IsSimple" =>
        /\ ncalls <= 1
        /\ found <=> (calls = {})
        /\ found <=> (ncalls = 0)
        /\ found <=> ~stopped
        /\ (pc = "done" /\ found /\ NumSegs >= 3) =>
              (ix = 2 * NumSegs /\ pending = {} /\ isegmap = {})
        /\ ~found => pc = "done"

\* IsSimple has returned false with events still unread
C7_Witness ==
    /\ IsSimpleDone
    /\ found = FALSE
    /\ ncalls = 1
    /\ pending # {}

\* IsSimple has returned true after a full scan of a ring of 4 segments
C7_WitnessTrue ==
    /\ IsSimpleDone
    /\ found = TRUE
    /\ NumSegs = 4
    /\ ix = 8

\* C8: every callback invocation receives srcIdx < destIdx, both in 0..n-1,
\* the smaller and the larger of the closing and the open segment's index.
C8_SrcLessThanDest ==
    /\ \A c \in calls : c[1] < c[2] /\ c[1] \in 0 .. NumSegs - 1 /\ c[2] \in 0 .. NumSegs - 1
    /\ lastCall # NoCall =>
        /\ lastCall.src < lastCall.dest
        /\ lastCall.src \in 0 .. NumSegs - 1
        /\ lastCall.dest \in 0 .. NumSegs - 1
        /\ {lastCall.src, lastCall.dest} = {lastCall.closing, lastCall.open}
        /\ <<lastCall.src, lastCall.dest>> \in calls

\* the closing segment had the larger index: the pair was swapped
C8_Witness ==
    /\ lastCall # NoCall
    /\ lastCall.closing > lastCall.open
    /\ lastCall.src = lastCall.open

\* the (edge, point) pairs of the events of a segment array
EventKeys(segs_) == {<<e.edge, e.ev>> : e \in EventSet(segs_)}

C10_ComplementIsPairedEvent ==
    (pc = "queue" /\ NoZeroLength(segments)) =>
        \A k \in 1 .. Len(eq) :
            /\ Complement(eq, eq[k]).edge = eq[k].edge
            /\ Complement(eq, eq[k]).edgeType # eq[k].edgeType

\* C11: for a queue built from n segments, successive calls of Next return each
\* of the 2n events exactly once, in non-decreasing (x, then y) order of their
\* points, and every call after the 2n-th returns nil and leaves the cursor at
\* 2n.
C11_NextReturnsEachEventOnceInOrder ==
    /\ [](pc = "queue" =>
            /\ ix = Len(nexts)
            /\ ix <= 2 * NumSegs
            /\ \A k \in 1 .. Len(nexts) : nexts[k] \in EventSet(segments)
            /\ \A j, k \in 1 .. Len(nexts) :
                  j < k => (nexts[j] # nexts[k]
                            /\ xyorder(nexts[j].ev, nexts[k].ev) <= 0)
            /\ ix = 2 * NumSegs =>
                  {nexts[k] : k \in 1 .. Len(nexts)} = EventSet(segments)
            /\ ret = NoEvent => (ix = 0 \/ ix = 2 * NumSegs))
    /\ [][pc = "queue" =>
            /\ ix' # ix => (ix < 2 * NumSegs /\ ix' = ix + 1 /\ ret' = nexts'[ix'])
            /\ ix = 2 * NumSegs => (ix' = ix /\ nexts' = nexts)]_vars

\* all four events of two segments were returned, two of them at one point, and
\* a further call returned nil
C11_Witness ==
    /\ pc = "queue"
    /\ NumSegs = 2
    /\ ix = 4
    /\ ret = NoEvent
    /\ nexts[1].ev # nexts[4].ev
    /\ \E k \in 1 .. 3 : nexts[k].ev = nexts[k + 1].ev /\ nexts[k].edge # nexts[k + 1].edge

\* the events of segment i in the sorted array q
EventsOf(q, i) == {k \in 1 .. Len(q) : q[k].edge = i}

\* C12: in every queue built by NewEventQueue each segment owns exactly two
\* events, one LEFT and one RIGHT, and the point of the LEFT event is less than
\* or equal to the point of the RIGHT event, zero-length segments included.
C12_OneLeftOneRightPerSegment ==
    pc = "queue" =>
        /\ Len(eq) = 2 * NumSegs
        /\ \A i \in 0 .. NumSegs - 1 :
            /\ Cardinality(EventsOf(eq, i)) = 2
            /\ \E l, r \in EventsOf(eq, i) :
                /\ l # r
                /\ eq[l].edgeType = LEFT
                /\ eq[r].edgeType = RIGHT
                /\ xyorder(eq[l].ev, eq[r].ev) <= 0
                /\ {eq[l].ev, eq[r].ev} = {segments[i + 1][1], segments[i + 1][2]}

\* a queue of a zero-length segment and a segment given right to left
C12_Witness ==
    /\ pc = "queue"
    /\ NumSegs = 2
    /\ segments[1][1] = segments[1][2]
    /\ xyorder(segments[2][1], segments[2][2]) > 0
    /\ Len(eq) = 4

\* C13: the event at which a segment enters the open set is its LEFT-typed
\* event and the event at which it leaves is its RIGHT-typed event, for every
\* segment, zero-length ones included.  ev is the event read last: its edge is
\* in the open set exactly when that event inserted it.
C13_InsertAtLeftRemoveAtRight ==
    (pc \in {"loop", "test", "done"} /\ ev # NoEvent) =>
        /\ ev.edge \in isegmap => ev.edgeType = LEFT
        /\ ev.edge \notin isegmap => ev.edgeType = RIGHT

\* the events Next has returned to the scan so far
Consumed == IF pc = "start" THEN {} ELSE EventSet(segments) \ pending

\* C14: after any prefix of the events the open set holds exactly the segments
\* of which exactly one of the two events was consumed; it is empty before the
\* first event and empty again once all 2n events were consumed.
C14_OpenSetIsHalfConsumed ==
    /\ isegmap = {i \in 0 .. NumSegs - 1 :
                    Cardinality({e \in Consumed : e.edge = i}) = 1}
    /\ Cardinality(Consumed) = ix
    /\ ix = 0 => isegmap = {}
    /\ ix = 2 * NumSegs => isegmap = {}

\* three segments were opened and one of them closed: two are half consumed
C14_Witness ==
    /\ pc = "test"
    /\ ix = 4
    /\ Cardinality(isegmap) = 2
    /\ ev.edge \notin isegmap
    /\ Cardinality({e \in Consumed : e.edge = ev.edge}) = 2

\* C15: maths.Intersect is called only when the caller calls a ptfn it was
\* handed, never by a step of the scan, and every ptfn, whenever it is called,
\* solves for exactly the two segments whose indices went to the callback
\* together with it.
C15_SolverOnlyThroughPtfn ==
    /\ [](/\ solved \subseteq ptfns
          /\ fn = "IsSimple" => solved = {}
          /\ {<<f.src, f.dest>> : f \in ptfns} = calls
          /\ \A f \in ptfns :
                \/ f.edge = segments[f.src + 1] /\ f.sedge = segments[f.dest + 1]
                \/ f.edge = segments[f.dest + 1] /\ f.sedge = segments[f.src + 1])
    /\ [][solved' # solved =>
            /\ \E f \in ptfns : solved' = solved \cup {f}
            /\ UNCHANGED <<segments, pc, pending, ix, isegmap, ev, segs, calls,
                         ncalls, lastCall, ptfns>>]_vars

\* the scan has returned after two reports and the ptfn of a pair reported
\* before the last one was called, over two different lines
C15_Witness ==
    /\ pc = "done"
    /\ ncalls = 2
    /\ \E f \in solved :
        /\ <<f.src, f.dest>> # <<lastCall.src, lastCall.dest>>
        /\ f.edge # f.sedge

\* the unordered pairs of segment indices that are not neighbours in the ring
NonAdjacentPairs(n) ==
    {p \in (0 .. n - 1) \X (0 .. n - 1) : p[1] < p[2] /\ ~RingAdjacent(p[1], p[2], n)}

\* C16: in one run no unordered pair of indices goes to the callback twice,
\* so the number of invocations is the number of distinct pairs passed and
\* never exceeds the number of non-adjacent pairs.
C16_NoPairReportedTwice ==
    /\ ncalls = Cardinality(calls)
    /\ \A p \in calls : <<p[2], p[1]>> \notin calls
    /\ calls \subseteq NonAdjacentPairs(NumSegs)
    /\ ncalls <= Cardinality(NonAdjacentPairs(NumSegs))

\* a full scan of four segments that reported both non-adjacent pairs
C16_Witness ==
    /\ pc = "done"
    /\ NumSegs = 4
    /\ ncalls = 2
    /\ calls = NonAdjacentPairs(4)

\* C17 as stated: FindIntersects returns only at the first callback
\* invocation that returns false or after consuming each of the 2n events.
C17_ReturnsAtAbortOrAfterAllEvents ==
    pc = "done" => (stopped \/ ix = 2 * NumSegs)

\* C17, amended: for every segment array and every callback that returns,
\* FindIntersects eventually returns; it ends at the first callback invocation
\* that returns false, or after consuming each of the 2n events exactly once,
\* or, for fewer than 3 segments, at once without consuming any event; and it
\* never consumes an event twice.
C17_EventuallyReturns ==
    /\ <>(pc = "done")
    /\ [](pc # "done" => ENABLED ScanStep)
    /\ [](pc = "done" =>
            \/ stopped
            \/ ix = 2 * NumSegs /\ Consumed = EventSet(segments)
            \/ TooFew(NumSegs) /\ ix = 0)
    /\ [](stopped => pc = "done")
    /\ [][/\ ix' # ix => (/\ ix' = ix + 1
                          /\ ev' \in pending
                          /\ pending' = pending \ {ev'})
          /\ (stopped' /\ ~stopped) => (pc' = "done" /\ ncalls' = ncalls + 1)
          /\ pc = "done" => UNCHANGED <<pc, ix, pending, ncalls, calls>>]_vars

\* a scan of four segments that ran to the end of the queue and returned
C17_Witness ==
    /\ pc = "done"
    /\ ~stopped
    /\ NumSegs = MaxSegs
    /\ ix = 2 * NumSegs
    /\ pending = {}
    /\ ncalls > 0

\* the levels at which a message of severity sev is to be forwarded
Enabled(sev, lvl) == sev = FATAL \/ lvl <= sev

\* C18: whenever no SetLogLevel is under way the flags correspond to the level
\* of the call completed last, an unrecognised level counting as INFO:
\* IsTrace iff level = TRACE, IsDebug iff level <= DEBUG, IsInfo iff
\* level <= INFO, IsWarn iff level <= WARN, IsError iff level <= ERROR; the
\* flags are nested; and Fatal is forwarded at every level.
C18_FlagsMatchLastLevel ==
    /\ lock = 0 =>
        /\ level = Normalize(lastArg)
        /\ IsTrace = (level = TRACE)
        /\ IsDebug = (level <= DEBUG)
        /\ IsInfo = (level <= INFO)
        /\ IsWarn = (level <= WARN)
        /\ IsError = (level <= ERROR)
        /\ IsTrace => IsDebug
        /\ IsDebug => IsInfo
        /\ IsInfo => IsWarn
        /\ IsWarn => IsError
    /\ lastLog.sev = FATAL => lastLog.passed

\* SetLogLevel(FATAL) has completed, every flag is clear, and Fatal was
\* forwarded
C18_Witness ==
    /\ lock = 0
    /\ \A t \in Setters : spc[t] = "idle"
    /\ lastLog = [sev |-> FATAL, passed |-> TRUE, old |-> FATAL, new |-> FATAL]
    /\ lastArg = FATAL
    /\ level = FATAL
    /\ ~IsError

\* C19: a call of Error .. Trace concurrent with a SetLogLevel sees its flag
\* as before or as after that call, so a message whose severity is enabled at
\* the old and at the new level is forwarded.
C19_NoSuppressionDuringSetLogLevel ==
    (Enabled(lastLog.sev, lastLog.old) /\ Enabled(lastLog.sev, lastLog.new))
        => lastLog.passed

\* the first failure on the way through MVTLayer: the lookup, the gzip
\* reader, the decompression, the deserialization, the conversion
FirstError(e) ==
    IF e.db = "dberr" THEN "db.QueryRow"
    ELSE IF isGzip(e.data) /\ e.reader = "err" THEN "gzip.NewReader"
    ELSE IF isGzip(e.data) /\ e.read = "err" THEN "ioutil.ReadAll"
    ELSE IF e.proto = "err" THEN "proto.Unmarshal"
    ELSE IF e.conv = "err" THEN "mvt.TileFromVTile"
    ELSE "nil"

\* C20: getTile returns an empty tile and a nil error when the key has no
\* row, and no tile and the error for any other query failure; MVTLayer
\* returns unchanged the first error raised by the lookup, the gzip
\* decompression, the deserialization or the conversion, and a nil error with
\* an empty layer when the tile has no layer named layerName.
C20_MissingTileIsNotAnError ==
    /\ tpc # "call" =>
        /\ tenv.db = "norows" => ttile = "empty"
        /\ tenv.db = "dberr" => (ttile = "nil" /\ terr = "db.QueryRow")
        /\ tenv.db = "row" => ttile = "full"
    /\ tpc = "gzip" => (tenv.db # "dberr" /\ terr = "nil")
    /\ tpc = "done" =>
        /\ terr = FirstError(tenv)
        /\ (terr = "nil" /\ ~tenv.named) => tlayer = "empty"
        /\ (terr = "nil" /\ tenv.named) => tlayer = "named"

\* the key has no row: MVTLayer has returned an empty layer and no error
C20_Witness ==
    /\ tpc = "done"
    /\ tenv.db = "norows"
    /\ ttile = "empty"
    /\ tlayer = "empty"
    /\ terr = "nil"
====
